---------------------------- MODULE Spec2Model ----------------------------
(***************************************************************************)
(* CallbackDataCache of telegram/ext/utils/callbackdatacache.py.           *)
(*                                                                         *)
(* The cache keeps two cachetools.LRUCache mappings under one lock:        *)
(*   _keyboard_data     keyboard uuid      -> KeyboardData                 *)
(*   _callback_queries  callback query id  -> keyboard uuid                *)
(* Every public method runs its whole body inside "with self.__lock".       *)
(* In the specification Spec one caller makes the calls and each method is *)
(* one action.  In the specification ThreadSpec two threads make the calls *)
(* and run the bodies statement by statement, waiting for the lock first.  *)
(*                                                                         *)
(* Python values are modelled as follows.                                  *)
(*   str            a sequence of one-character strings                    *)
(*   callback_data  a record [kind, v]: None, a str, an arbitrary payload  *)
(*                  object, or an InvalidCallbackData instance             *)
(*   dict           a function; where the iteration order of the dict is   *)
(*                  observable, a sequence of keys next to the function    *)
(*   LRUCache       [keys, val, order]: the dict Cache.__data (keys in     *)
(*                  insertion order and their values) and the OrderedDict  *)
(*                  LRUCache.__order (least recently used first)           *)
(*   time.time()    the variable now, which never decreases                *)
(*   uuid4().hex    Hex32 of a counter: every call yields a fresh value    *)
(***************************************************************************)
EXTENDS Integers, Sequences, FiniteSets, TLC

VARIABLES
    maxsize,            \* self.maxsize
    _keyboard_data,     \* self._keyboard_data
    _callback_queries,  \* self._callback_queries
    now,                \* the value time.time() returns
    uuids,              \* number of uuid4() calls made so far
    op,                 \* the public method that just ran, "idle" between calls
    arg,                \* its argument
    ret,                \* the value it returned (or the object it changed in place)
    raised,             \* the exception it raised, "none" if it returned
    removed,            \* the keys it removed from the two stores
    minted,             \* history: token -> payload it was minted for
    __lock,             \* self.__lock: "free", or the thread that holds it
    threads,            \* the calls of the threads that share the cache
    calls               \* history: what the threads have called so far

vars == <<maxsize, _keyboard_data, _callback_queries, now, uuids,
          op, arg, ret, raised, removed, minted, __lock, threads, calls>>

\* the state of the threads, which Spec leaves alone: there the caller is
\* the only thread and every call runs from acquiring to releasing the lock
concurrent == <<__lock, threads, calls>>

\* the record of the last call, which ThreadSpec leaves alone
sequential == <<op, arg, ret, raised, removed>>

-----------------------------------------------------------------------------
(* Bounds of the model *)

MaxCapacity == 2    \* capacities 1 .. MaxCapacity are explored
MaxTime == 2        \* the clock starts at 1 and stops advancing at MaxTime
MaxUuids == 3       \* no put_keyboard starts once this many uuids were drawn

-----------------------------------------------------------------------------
(* Python values *)

None == [kind |-> "none", v |-> <<>>]

Str(s) == [kind |-> "str", v |-> s]

Obj(name) == [kind |-> "obj", v |-> <<name>>]

\* bool(x) for the values a callback_data or data attribute can hold
Truthy(x) == ~(x.kind = "none" \/ (x.kind = "str" /\ x.v = <<>>))

EmptyDict == [k \in {} |-> None]

\* d[k] = v on a dict modelled as a function
DictSet(d, k, v) == [x \in (DOMAIN d) \cup {k} |-> IF x = k THEN v ELSE d[x]]

\* del d[k]
DictDel(d, k) == [x \in (DOMAIN d) \ {k} |-> d[x]]

\* the sequence s without the element k
RECURSIVE SeqRemove(_, _)
SeqRemove(s, k) ==
    IF s = <<>> THEN <<>>
    ELSE IF Head(s) = k THEN SeqRemove(Tail(s), k)
    ELSE <<Head(s)>> \o SeqRemove(Tail(s), k)

SeqSet(s) == {s[i] : i \in 1..Len(s)}

-----------------------------------------------------------------------------
(* uuid4().hex *)

UuidLen == 32

HexDigits == <<"0", "1", "2", "3", "4", "5", "6", "7",
               "8", "9", "a", "b", "c", "d", "e", "f">>

\* the 32 hexadecimal digits of n, for n < 256
Hex32(n) ==
    [i \in 1..UuidLen |->
        IF i = UuidLen THEN HexDigits[(n % 16) + 1]
        ELSE IF i = UuidLen - 1 THEN HexDigits[((n \div 16) % 16) + 1]
        ELSE "0"]

\* a generator that yields the same value again and again
uuid4_again(n) == Hex32(1)

\* the value of the (n+1)-th call of uuid4().hex
uuid4(n) == Hex32(n + 1)

-----------------------------------------------------------------------------
(* InvalidCallbackData *)

InvalidCallbackData(callback_data) == [kind |-> "invalid", v |-> callback_data]

-----------------------------------------------------------------------------
(* KeyboardData *)

\* KeyboardData.__init__; access_time 0 and an empty button_data are falsy
KeyboardData(keyboard_uuid, access_time, button_data, t) ==
    [keyboard_uuid |-> keyboard_uuid,
     button_data   |-> IF DOMAIN button_data = {} THEN EmptyDict ELSE button_data,
     access_time   |-> IF access_time = 0 THEN t ELSE access_time]

\* a slip in KeyboardData.update: the access time is left as it was
update_skipped(keyboard_data, t) == keyboard_data

\* a slip in KeyboardData.update: the button data is lost
update_wiped(keyboard_data, t) ==
    [keyboard_data EXCEPT !.button_data = EmptyDict, !.access_time = t]

\* KeyboardData.update
update(keyboard_data, t) == [keyboard_data EXCEPT !.access_time = t]

\* a slip in KeyboardData.to_tuple: the access time is not exported
to_tuple_untimed(keyboard_data) ==
    <<keyboard_data.keyboard_uuid, 0, keyboard_data.button_data>>

\* KeyboardData.to_tuple
to_tuple(keyboard_data) ==
    <<keyboard_data.keyboard_uuid, keyboard_data.access_time, keyboard_data.button_data>>

-----------------------------------------------------------------------------
(* cachetools.LRUCache *)

\* LRUCache(maxsize): empty
LRUCache == [keys |-> <<>>, val |-> EmptyDict, order |-> <<>>]

\* key in cache
Contains(cache, key) == key \in DOMAIN cache.val

\* LRUCache.__update: move key to the most recently used end
LRU_update(cache, key) ==
    [cache EXCEPT !.order = SeqRemove(cache.order, key) \o <<key>>]

\* LRUCache.__getitem__ for a key that is present: the value is cache.val[key]
\* and the lookup marks the key as most recently used
LRU_getitem(cache, key) == LRU_update(cache, key)

\* LRUCache.__delitem__
LRU_delitem(cache, key) ==
    [keys  |-> SeqRemove(cache.keys, key),
     val   |-> DictDel(cache.val, key),
     order |-> SeqRemove(cache.order, key)]

\* Cache.pop for a key that is present: value = self[key]; del self[key]
Cache_pop(cache, key) == LRU_delitem(LRU_getitem(cache, key), key)

\* LRUCache.popitem: pop the least recently used key
LRU_popitem(cache) == Cache_pop(cache, Head(cache.order))

\* a slip in that loop: room is made only once the cache is over its size
MakeRoomLate(cache, size) ==
    IF Len(cache.keys) > size THEN LRU_popitem(cache) ELSE cache

\* the loop "while currsize + size > maxsize: self.popitem()" of Cache.__setitem__
RECURSIVE MakeRoom(_, _)
MakeRoom(cache, size) ==
    IF Len(cache.keys) + 1 > size THEN MakeRoom(LRU_popitem(cache), size) ELSE cache

\* LRUCache.__setitem__ (every value has size 1, and size >= 1)
LRU_setitem(cache, key, value, size) ==
    LET roomy  == IF Contains(cache, key) THEN cache ELSE MakeRoom(cache, size)
        stored == [roomy EXCEPT
                     !.keys = IF Contains(roomy, key) THEN @ ELSE @ \o <<key>>,
                     !.val  = DictSet(@, key, value)]
    IN  LRU_update(stored, key)

\* MutableMapping.clear: popitem() until the cache is empty
RECURSIVE LRU_clear(_)
LRU_clear(cache) ==
    IF cache.order = <<>> THEN cache ELSE LRU_clear(LRU_popitem(cache))

\* a complete iteration of cache.values() or cache.items(): the view reads
\* self[key] for every key of the dict, in dict order
RECURSIVE IterateFrom(_, _)
IterateFrom(cache, ks) ==
    IF ks = <<>> THEN cache ELSE IterateFrom(LRU_getitem(cache, Head(ks)), Tail(ks))

Iterate(cache) == IterateFrom(cache, cache.keys)

-----------------------------------------------------------------------------
(* Keyboards and callback queries *)

InlineKeyboardButton(text, callback_data) == [text |-> text, callback_data |-> callback_data]

InlineKeyboardMarkup(buttons) == [inline_keyboard |-> buttons]

\* a CallbackQuery: message.has says whether the query has a message,
\* message.reply_markup.has whether that message has a keyboard
CallbackQuery(id, data, message) == [id |-> id, data |-> data, message |-> message]

NoMarkup == [has |-> FALSE, inline_keyboard |-> <<>>]

NoMessage == [has |-> FALSE, reply_markup |-> NoMarkup]

Message(rows) == [has |-> TRUE, reply_markup |-> [has |-> TRUE, inline_keyboard |-> rows]]

-----------------------------------------------------------------------------
(* CallbackDataCache: token codec *)

\* a slip in extract_uuids: the string is cut one character early
extract_uuids_early(callback_data) ==
    <<SubSeq(callback_data, 1, UuidLen - 1), SubSeq(callback_data, UuidLen, Len(callback_data))>>

\* CallbackDataCache.extract_uuids: callback_data[:32], callback_data[32:]
extract_uuids(callback_data) ==
    <<SubSeq(callback_data, 1, IF Len(callback_data) < UuidLen
                               THEN Len(callback_data) ELSE UuidLen),
      SubSeq(callback_data, UuidLen + 1, Len(callback_data))>>

\* CallbackDataCache.__put_button: draws one uuid, stores the payload in the
\* record and returns the token keyboard_uuid + uuid
__put_button(callback_data, keyboard_data, n) ==
    LET uuid == uuid4(n)
    IN  [token         |-> keyboard_data.keyboard_uuid \o uuid,
         keyboard_data |-> [keyboard_data EXCEPT
                              !.button_data = DictSet(@, uuid, callback_data)],
         uuids         |-> n + 1]

-----------------------------------------------------------------------------
(* CallbackDataCache.put_keyboard *)

\* the inner comprehension of __put_keyboard over the buttons of one row
RECURSIVE PutRow(_, _, _)
PutRow(row, keyboard_data, n) ==
    IF row = <<>> THEN [buttons |-> <<>>, keyboard_data |-> keyboard_data, uuids |-> n]
    ELSE LET btn == Head(row)
         IN  IF Truthy(btn.callback_data)
             THEN LET put  == __put_button(btn.callback_data, keyboard_data, n)
                      rest == PutRow(Tail(row), put.keyboard_data, put.uuids)
                  IN  [rest EXCEPT !.buttons =
                          <<InlineKeyboardButton(btn.text, Str(put.token))>> \o @]
             ELSE LET rest == PutRow(Tail(row), keyboard_data, n)
                  IN  [rest EXCEPT !.buttons = <<btn>> \o @]

\* the outer comprehension of __put_keyboard over the rows
RECURSIVE PutRows(_, _, _)
PutRows(rows, keyboard_data, n) ==
    IF rows = <<>> THEN [buttons |-> <<>>, keyboard_data |-> keyboard_data, uuids |-> n]
    ELSE LET first == PutRow(Head(rows), keyboard_data, n)
             rest  == PutRows(Tail(rows), first.keyboard_data, first.uuids)
         IN  [rest EXCEPT !.buttons = <<first.buttons>> \o @]

\* a slip in __put_keyboard: the record is stored although it holds no data
__put_keyboard_always(cache, reply_markup, n, t, size) ==
    LET keyboard_uuid == uuid4(n)
        keyboard_data == KeyboardData(keyboard_uuid, 0, EmptyDict, t)
        built         == PutRows(reply_markup.inline_keyboard, keyboard_data, n + 1)
    IN  [ret   |-> IF DOMAIN built.keyboard_data.button_data = {}
                   THEN reply_markup ELSE InlineKeyboardMarkup(built.buttons),
         cache |-> LRU_setitem(cache, keyboard_uuid, built.keyboard_data, size),
         uuids |-> built.uuids]

\* CallbackDataCache.__put_keyboard: the returned markup, the keyboard store
\* and the uuid counter afterwards.  The uuid drawn for a keyboard that is
\* not stored is seen by nobody, so the counter does not count it.
__put_keyboard(cache, reply_markup, n, t, size) ==
    LET keyboard_uuid == uuid4(n)
        keyboard_data == KeyboardData(keyboard_uuid, 0, EmptyDict, t)
        built         == PutRows(reply_markup.inline_keyboard, keyboard_data, n + 1)
    IN  IF DOMAIN built.keyboard_data.button_data = {}
        THEN [ret |-> reply_markup, cache |-> cache, uuids |-> n]
        ELSE [ret   |-> InlineKeyboardMarkup(built.buttons),
              cache |-> LRU_setitem(cache, keyboard_uuid, built.keyboard_data, size),
              uuids |-> built.uuids]

\* history: the payload each token of the built markup was put in for, read
\* off the two markups slot by slot
Replaced(reply_markup, built_markup) ==
    LET old   == reply_markup.inline_keyboard
        new   == built_markup.inline_keyboard
        slots == UNION {{<<i, j>> : j \in 1..Len(old[i])} : i \in 1..Len(old)}
        put   == {s \in slots : Truthy(old[s[1]][s[2]].callback_data)}
    IN  [token \in {new[s[1]][s[2]].callback_data.v : s \in put} |->
            LET s == CHOOSE s \in put : new[s[1]][s[2]].callback_data.v = token
            IN  old[s[1]][s[2]].callback_data]

\* f extended (and overridden) by g
Merge(f, g) == [x \in (DOMAIN f) \cup (DOMAIN g) |-> IF x \in DOMAIN g THEN g[x] ELSE f[x]]

-----------------------------------------------------------------------------
(* CallbackDataCache.process_callback_query *)

\* CallbackDataCache.__get_button_data: the value for the slot and the
\* keyboard store afterwards
__get_button_data(cache, callback_data, t) ==
    LET ids      == extract_uuids(callback_data)
        keyboard == ids[1]
        button   == ids[2]
    IN  IF ~Contains(cache, keyboard)
        THEN [value |-> InvalidCallbackData(callback_data), cache |-> cache]
        ELSE LET looked        == LRU_getitem(cache, keyboard)
                 keyboard_data == looked.val[keyboard]
             IN  IF button \notin DOMAIN keyboard_data.button_data
                 THEN [value |-> InvalidCallbackData(callback_data), cache |-> looked]
                 ELSE [value |-> keyboard_data.button_data[button],
                       cache |-> [looked EXCEPT
                                    !.val[keyboard] = update(keyboard_data, t)]]

\* a slip in that loop: the first button that cannot be resolved ends it
RECURSIVE ResolveRowAbort(_, _, _)
ResolveRowAbort(row, cache, t) ==
    IF row = <<>> THEN [buttons |-> <<>>, cache |-> cache]
    ELSE LET button == Head(row)
         IN  IF Truthy(button.callback_data)
             THEN LET got == __get_button_data(cache, button.callback_data.v, t)
                  IN  IF got.value.kind = "invalid"
                      THEN [buttons |-> <<[button EXCEPT !.callback_data = got.value]>>
                                            \o Tail(row),
                            cache   |-> got.cache]
                      ELSE LET rest == ResolveRowAbort(Tail(row), got.cache, t)
                           IN  [rest EXCEPT !.buttons =
                                   <<[button EXCEPT !.callback_data = got.value]>> \o @]
             ELSE LET rest == ResolveRowAbort(Tail(row), cache, t)
                  IN  [rest EXCEPT !.buttons = <<button>> \o @]

\* the loop of process_callback_query over the buttons of one row
RECURSIVE ResolveRow(_, _, _)
ResolveRow(row, cache, t) ==
    IF row = <<>> THEN [buttons |-> <<>>, cache |-> cache]
    ELSE LET button == Head(row)
         IN  IF Truthy(button.callback_data)
             THEN LET got  == __get_button_data(cache, button.callback_data.v, t)
                      rest == ResolveRow(Tail(row), got.cache, t)
                  IN  [rest EXCEPT !.buttons =
                          <<[button EXCEPT !.callback_data = got.value]>> \o @]
             ELSE LET rest == ResolveRow(Tail(row), cache, t)
                  IN  [rest EXCEPT !.buttons = <<button>> \o @]

\* the loop of process_callback_query over the rows of the attached keyboard
RECURSIVE ResolveRows(_, _, _)
ResolveRows(rows, cache, t) ==
    IF rows = <<>> THEN [buttons |-> <<>>, cache |-> cache]
    ELSE LET first == ResolveRow(Head(rows), cache, t)
             rest  == ResolveRows(Tail(rows), first.cache, t)
         IN  [rest EXCEPT !.buttons = <<first.buttons>> \o @]

\* a slip in that line: the button uuid is stored for the query
StoreQueryButton(queries, callback_query, size) ==
    LRU_setitem(queries, callback_query.id, extract_uuids(callback_query.data.v)[2], size)

\* "self._callback_queries[callback_query.id] = self.extract_uuids(callback_query.data)[0]"
StoreQuery(queries, callback_query, size) ==
    LRU_setitem(queries, callback_query.id, extract_uuids(callback_query.data.v)[1], size)

\* the body of process_callback_query: the callback query as it is returned
\* and both stores afterwards
ProcessBody(keyboards, queries, callback_query, t, size) ==
    IF ~Truthy(callback_query.data)
    THEN [ret |-> callback_query, keyboards |-> keyboards, queries |-> queries]
    ELSE LET stored == StoreQuery(queries, callback_query, size)
             top    == __get_button_data(keyboards, callback_query.data.v, t)
             markup == callback_query.message.reply_markup
         IN  IF callback_query.message.has /\ markup.has
             THEN LET rows == ResolveRows(markup.inline_keyboard, top.cache, t)
                  IN  [ret |-> [callback_query EXCEPT
                                  !.data = top.value,
                                  !.message.reply_markup.inline_keyboard = rows.buttons],
                       keyboards |-> rows.cache,
                       queries   |-> stored]
             ELSE [ret       |-> [callback_query EXCEPT !.data = top.value],
                   keyboards |-> top.cache,
                   queries   |-> stored]

-----------------------------------------------------------------------------
(* CallbackDataCache.drop_data *)

\* a slip in __drop_keyboard: the keyboard is kept
__drop_keyboard_keep(cache, keyboard_uuid) == cache

\* CallbackDataCache.__drop_keyboard: a missing keyboard is ignored
__drop_keyboard(cache, keyboard_uuid) ==
    IF Contains(cache, keyboard_uuid) THEN Cache_pop(cache, keyboard_uuid) ELSE cache

\* a slip in drop_data: every query is dropped
DropBodyWide(keyboards, queries, callback_query) ==
    IF Contains(queries, callback_query.id)
    THEN [raised |-> "none", keyboards |-> keyboards, queries |-> LRU_clear(queries)]
    ELSE [raised |-> "KeyError", keyboards |-> keyboards, queries |-> queries]

\* the body of drop_data
DropBody(keyboards, queries, callback_query) ==
    IF Contains(queries, callback_query.id)
    THEN [raised    |-> "none",
          keyboards |-> __drop_keyboard(keyboards, queries.val[callback_query.id]),
          queries   |-> Cache_pop(queries, callback_query.id)]
    ELSE [raised |-> "KeyError", keyboards |-> keyboards, queries |-> queries]

-----------------------------------------------------------------------------
(* CallbackDataCache.clear_callback_data, clear_callback_queries *)

\* a time_cutoff argument: None, a float, or a datetime (v: its epoch seconds)
NoCutoff == [kind |-> "none", v |-> 0]

Float(x) == [kind |-> "float", v |-> x]

Datetime(x) == [kind |-> "datetime", v |-> x]

\* telegram.utils.helpers.to_float_timestamp for a datetime
to_float_timestamp(time_cutoff) == time_cutoff.v

\* the loop "for key in to_drop: mapping.pop(key)" of __clear over the lazy
\* generator to_drop.  The generator walks the dict of the cache and reads
\* self[key] for each key.  Values without access_time (timed = FALSE) raise
\* AttributeError at the first read.  The first pop changes the size of the
\* dict, so the generator raises RuntimeError when the loop asks for the
\* next key.
RECURSIVE DropLoop(_, _, _, _)
DropLoop(mapping, ks, effective_cutoff, timed) ==
    IF ks = <<>> THEN [raised |-> "none", mapping |-> mapping]
    ELSE LET key  == Head(ks)
             read == LRU_getitem(mapping, key)
         IN  IF ~timed THEN [raised |-> "AttributeError", mapping |-> read]
             ELSE IF read.val[key].access_time < effective_cutoff
                  THEN [raised |-> "RuntimeError", mapping |-> Cache_pop(read, key)]
                  ELSE DropLoop(read, Tail(ks), effective_cutoff, timed)

\* CallbackDataCache.__clear; "not time_cutoff" holds for None and for 0.0
__clear(mapping, time_cutoff, timed) ==
    IF time_cutoff.kind = "none" \/ (time_cutoff.kind = "float" /\ time_cutoff.v = 0)
    THEN [raised |-> "none", mapping |-> LRU_clear(mapping)]
    ELSE LET effective_cutoff == IF time_cutoff.kind = "datetime"
                                 THEN to_float_timestamp(time_cutoff)
                                 ELSE time_cutoff.v
         IN  DropLoop(mapping, mapping.keys, effective_cutoff, timed)

-----------------------------------------------------------------------------
(* CallbackDataCache.persistence_data and the import in __init__ *)

\* list(data.to_tuple() for data in cache.values())
ValueTuples(cache) == [i \in 1..Len(cache.keys) |-> to_tuple(cache.val[cache.keys[i]])]

\* dict(cache.items()), as the sequence of its (key, value) pairs
Items(cache) == [i \in 1..Len(cache.keys) |-> <<cache.keys[i], cache.val[cache.keys[i]]>>]

\* a CDCData value: the pair (keyboard_data, callback_queries); has tells it
\* from the None that persistent_data defaults to
CDCData(keyboard_data, callback_queries) ==
    [has |-> TRUE, keyboard_data |-> keyboard_data, callback_queries |-> callback_queries]

\* the body of persistence_data: the snapshot and both stores afterwards
PersistenceBody(keyboards, queries) ==
    [ret       |-> CDCData(ValueTuples(keyboards), Items(queries)),
     keyboards |-> Iterate(keyboards),
     queries   |-> Iterate(queries)]

\* "for key, value in callback_queries.items(): self._callback_queries[key] = value"
RECURSIVE ImportQueries(_, _, _)
ImportQueries(cache, items, size) ==
    IF items = <<>> THEN cache
    ELSE ImportQueries(LRU_setitem(cache, Head(items)[1], Head(items)[2], size),
                       Tail(items), size)

\* "for uuid, access_time, data in keyboard_data: self._keyboard_data[uuid] = ..."
RECURSIVE ImportKeyboards(_, _, _, _)
ImportKeyboards(cache, tuples, t, size) ==
    IF tuples = <<>> THEN cache
    ELSE LET tuple == Head(tuples)
         IN  ImportKeyboards(
                 LRU_setitem(cache, tuple[1],
                             KeyboardData(tuple[1], tuple[2], tuple[3], t), size),
                 Tail(tuples), t, size)

-----------------------------------------------------------------------------
(* Inputs *)

\* callback query ids: QueryId(1) is the query received in this run,
\* QueryId(2) one of an earlier run, known from the snapshot
QueryId(i) == <<"q", HexDigits[i + 1]>>

ReceivedIds == {QueryId(1)}

QueryIds == {QueryId(1), QueryId(2)}

Button(callback_data) == InlineKeyboardButton("text", callback_data)

\* the keyboards handed to put_keyboard: two without data to store and one
\* with two payloads around a button without data
Layouts ==
    {InlineKeyboardMarkup(<<>>),
     InlineKeyboardMarkup(<<<<Button(Str(<<>>)), Button(None)>>>>),
     InlineKeyboardMarkup(<<<<Button(Obj("p1")), Button(None)>>, <<Button(Obj("p2"))>>>>)}

\* uuids of an earlier run of the bot, found in snapshots
Old(i) == Hex32(200 + i)

NoSnapshot == [has |-> FALSE, keyboard_data |-> <<>>, callback_queries |-> <<>>]

\* the persistent_data arguments of the constructor: none, or a snapshot as
\* persistence_data exports it
Snapshots ==
    {NoSnapshot,
     CDCData(<<<<Old(1), 1, [b \in {Old(2)} |-> Obj("p1")]>>,
               <<Old(3), 1, [b \in {Old(4)} |-> Obj("p2")]>>>>,
             <<<<QueryId(2), Old(3)>>>>)}

\* history: the tokens a snapshot holds payloads for
SnapshotTokens(snapshot) ==
    LET tuples == snapshot.keyboard_data
        pairs  == UNION {{<<i, b>> : b \in DOMAIN tuples[i][3]} : i \in 1..Len(tuples)}
    IN  [token \in {tuples[x[1]][1] \o x[2] : x \in pairs} |->
            LET x == CHOOSE x \in pairs : tuples[x[1]][1] \o x[2] = token
            IN  tuples[x[1]][3][x[2]]]

\* a uuid no keyboard and no button has
Unknown == Hex32(0)

\* the keyboard uuids of the tokens handed out so far
MintedKeyboards == {extract_uuids(token)[1] : token \in DOMAIN minted}

\* strings no put_keyboard handed out: a token with its button part
\* exchanged, and a string shorter than a keyboard uuid
Forged == {Str(keyboard \o Unknown) : keyboard \in MintedKeyboards} \cup {Str(<<"x">>)}

\* the strings a callback query may carry as data
Tokens == {Str(token) : token \in DOMAIN minted} \cup Forged

\* the keyboard of a message: a button without data, a forged token and a
\* token handed out before
Attached(token) ==
    Message(<<<<Button(None), Button(Str(extract_uuids(token)[1] \o Unknown)),
                Button(Str(token))>>>>)

\* the callback queries handed to process_callback_query, but for their id:
\* any data without a message, no data with a message, and a message with a
\* keyboard, pressed on its token or carrying data of an unknown keyboard
Queries ==
    {<<data, NoMessage>> : data \in Tokens \cup {None, Str(<<>>)}}
    \cup {<<None, [has |-> TRUE, reply_markup |-> NoMarkup]>>}
    \cup UNION {{<<data, Attached(token)>> : data \in {Str(token), Str(<<"x">>)}} :
                token \in DOMAIN minted}

\* the time_cutoff arguments
Cutoffs ==
    {NoCutoff, Float(0), Float(MaxTime), Datetime(MaxTime)}

-----------------------------------------------------------------------------
(* The cache as a state machine *)

\* the keys of a store
Keys(cache) == DOMAIN cache.val

\* history: the keys a call removed from the keyboard store and from the
\* query store
Removed(keyboards_before, keyboards_after, queries_before, queries_after) ==
    <<Keys(keyboards_before) \ Keys(keyboards_after),
      Keys(queries_before) \ Keys(queries_after)>>

\* CallbackDataCache.__init__
Init ==
    /\ maxsize \in 1..MaxCapacity
    /\ now = 1
    /\ uuids = 0
    /\ \E persistent_data \in Snapshots :
          /\ _callback_queries =
                 IF persistent_data.has
                 THEN ImportQueries(LRUCache, persistent_data.callback_queries, maxsize)
                 ELSE LRUCache
          /\ _keyboard_data =
                 IF persistent_data.has
                 THEN ImportKeyboards(LRUCache, persistent_data.keyboard_data, now, maxsize)
                 ELSE LRUCache
          /\ arg = persistent_data
          /\ minted = SnapshotTokens(persistent_data)
    /\ op = "__init__"
    /\ ret = None
    /\ raised = "none"
    /\ removed = <<{}, {}>>
    /\ __lock = "free"
    /\ threads = <<>>
    /\ calls = [puts |-> 0, others |-> FALSE]

\* time passes between two calls: time.time() returns a later value
Tick ==
    /\ op = "idle"
    /\ now < MaxTime
    /\ now' = now + 1
    /\ UNCHANGED <<maxsize, _keyboard_data, _callback_queries, uuids,
                   op, arg, ret, raised, removed, minted>>
    /\ UNCHANGED concurrent

\* CallbackDataCache.put_keyboard
put_keyboard ==
    /\ op = "idle"
    /\ uuids < MaxUuids
    /\ \E reply_markup \in Layouts :
          LET put == __put_keyboard(_keyboard_data, reply_markup, uuids, now, maxsize)
              new == IF put.ret = reply_markup THEN EmptyDict
                     ELSE Replaced(reply_markup, put.ret)
          IN  /\ _keyboard_data' = put.cache
              /\ uuids' = put.uuids
              /\ arg' = reply_markup
              /\ ret' = put.ret
              /\ minted' = Merge(minted, new)
    /\ op' = "put_keyboard"
    /\ raised' = "none"
    /\ UNCHANGED <<maxsize, _callback_queries, now>>
    /\ removed' = Removed(_keyboard_data, _keyboard_data', _callback_queries, _callback_queries')
    /\ UNCHANGED concurrent

\* CallbackDataCache.process_callback_query
process_callback_query ==
    /\ op = "idle"
    /\ \E id \in ReceivedIds, query \in Queries :
          LET callback_query == CallbackQuery(id, query[1], query[2])
              done == ProcessBody(_keyboard_data, _callback_queries,
                                  callback_query, now, maxsize)
          IN  /\ _keyboard_data' = done.keyboards
              /\ _callback_queries' = done.queries
              /\ arg' = callback_query
              /\ ret' = done.ret
    /\ op' = "process_callback_query"
    /\ raised' = "none"
    /\ UNCHANGED <<maxsize, now, uuids, minted>>
    /\ removed' = Removed(_keyboard_data, _keyboard_data', _callback_queries, _callback_queries')
    /\ UNCHANGED concurrent

\* CallbackDataCache.drop_data
drop_data ==
    /\ op = "idle"
    /\ \E id \in QueryIds :
          LET callback_query == CallbackQuery(id, None, NoMessage)
              done == DropBody(_keyboard_data, _callback_queries, callback_query)
          IN  /\ _keyboard_data' = done.keyboards
              /\ _callback_queries' = done.queries
              /\ arg' = callback_query
              /\ raised' = done.raised
    /\ op' = "drop_data"
    /\ ret' = None
    /\ UNCHANGED <<maxsize, now, uuids, minted>>
    /\ removed' = Removed(_keyboard_data, _keyboard_data', _callback_queries, _callback_queries')
    /\ UNCHANGED concurrent

\* CallbackDataCache.clear_callback_data
clear_callback_data ==
    /\ op = "idle"
    /\ \E time_cutoff \in Cutoffs :
          LET done == __clear(_keyboard_data, time_cutoff, TRUE)
          IN  /\ _keyboard_data' = done.mapping
              /\ arg' = time_cutoff
              /\ raised' = done.raised
    /\ op' = "clear_callback_data"
    /\ ret' = None
    /\ UNCHANGED <<maxsize, _callback_queries, now, uuids, minted>>
    /\ removed' = Removed(_keyboard_data, _keyboard_data', _callback_queries, _callback_queries')
    /\ UNCHANGED concurrent

\* CallbackDataCache.clear_callback_queries
clear_callback_queries ==
    /\ op = "idle"
    /\ \E time_cutoff \in Cutoffs :
          LET done == __clear(_callback_queries, time_cutoff, FALSE)
          IN  /\ _callback_queries' = done.mapping
              /\ arg' = time_cutoff
              /\ raised' = done.raised
    /\ op' = "clear_callback_queries"
    /\ ret' = None
    /\ UNCHANGED <<maxsize, _keyboard_data, now, uuids, minted>>
    /\ removed' = Removed(_keyboard_data, _keyboard_data', _callback_queries, _callback_queries')
    /\ UNCHANGED concurrent

\* CallbackDataCache.persistence_data
persistence_data ==
    /\ op = "idle"
    /\ LET done == PersistenceBody(_keyboard_data, _callback_queries)
       IN  /\ _keyboard_data' = done.keyboards
           /\ _callback_queries' = done.queries
           /\ ret' = done.ret
    /\ op' = "persistence_data"
    /\ arg' = None
    /\ raised' = "none"
    /\ UNCHANGED <<maxsize, now, uuids, minted>>
    /\ removed' = Removed(_keyboard_data, _keyboard_data', _callback_queries, _callback_queries')
    /\ UNCHANGED concurrent

\* the caller has taken the result of the call and goes on
Return ==
    /\ op # "idle"
    /\ op' = "idle"
    /\ arg' = None
    /\ ret' = None
    /\ raised' = "none"
    /\ removed' = <<{}, {}>>
    /\ UNCHANGED <<maxsize, _keyboard_data, _callback_queries, now, uuids, minted>>
    /\ UNCHANGED concurrent

Next ==
    \/ Return
    \/ Tick
    \/ put_keyboard
    \/ process_callback_query
    \/ drop_data
    \/ clear_callback_data
    \/ clear_callback_queries
    \/ persistence_data

Spec == Init /\ [][Next]_vars

TypeOK ==
    /\ maxsize \in 1..MaxCapacity
    /\ now \in 1..MaxTime
    /\ SeqSet(_keyboard_data.keys) = DOMAIN _keyboard_data.val
    /\ SeqSet(_keyboard_data.order) = DOMAIN _keyboard_data.val
    /\ Len(_keyboard_data.keys) = Len(_keyboard_data.order)
    /\ SeqSet(_callback_queries.keys) = DOMAIN _callback_queries.val
    /\ SeqSet(_callback_queries.order) = DOMAIN _callback_queries.val

-----------------------------------------------------------------------------
(* The cache shared by threads *)

\* the threads that call the cache
Threads == {"t1", "t2"}

\* a thread that is not in a call
Idle == [pc |-> "idle", op |-> "none", arg |-> None, local |-> None,
         ret |-> None, raised |-> "none", found |-> None]

\* a lock that keeps nobody out
acquire_anyway(lock) == TRUE

\* Lock.acquire: a blocking acquire goes on once the lock is free
acquire(lock) == lock = "free"

\* a way out of the block that leaves the lock as it is
__exit__held(lock, thread) == lock

\* Lock.__exit__, at the end of a "with self.__lock" block, however it is left
__exit__(lock, thread) == "free"

\* the keyboards the threads put: one without data to store, one with
ThreadLayouts ==
    {InlineKeyboardMarkup(<<<<Button(Str(<<>>)), Button(None)>>>>),
     InlineKeyboardMarkup(<<<<Button(Obj("p1"))>>>>)}

\* the callback queries the threads process, but for their id: one without
\* data, and a button of a keyboard handed out before, pressed
ThreadQueries ==
    {<<None, NoMessage>>} \cup {<<Str(token), Attached(token)>> : token \in DOMAIN minted}

\* the calls a thread can make: <<method, argument>>
ThreadCalls ==
    {<<"put_keyboard", reply_markup>> : reply_markup \in ThreadLayouts}
    \cup {<<"process_callback_query", CallbackQuery(id, query[1], query[2])>> :
             id \in ReceivedIds, query \in ThreadQueries}
    \cup {<<"drop_data", CallbackQuery(id, None, NoMessage)>> : id \in ReceivedIds}
    \cup {<<"clear_callback_data", time_cutoff>> : time_cutoff \in {NoCutoff, Float(MaxTime)}}
    \cup {<<"clear_callback_queries", time_cutoff>> : time_cutoff \in {NoCutoff, Float(MaxTime)}}
    \cup {<<"persistence_data", None>>}

\* the first statement inside the "with self.__lock" block of a method
FirstStatement(method) ==
    CASE method = "put_keyboard" -> "build"
      [] method = "process_callback_query" -> "query"
      [] method = "drop_data" -> "pop"
      [] method = "persistence_data" -> "values"
      [] OTHER -> "clear"

\* history: what the call returns, raises and leaves in the stores when its
\* whole body runs on the stores found, with nothing in between; found is
\* what the thread saw when it got the lock
Alone(method, argument, found) ==
    CASE method = "put_keyboard" ->
             LET put == __put_keyboard(found.keyboards, argument, found.uuids,
                                       found.now, maxsize)
             IN  [ret |-> put.ret, raised |-> "none",
                  keyboards |-> put.cache, queries |-> found.queries]
      [] method = "process_callback_query" ->
             LET done == ProcessBody(found.keyboards, found.queries, argument,
                                     found.now, maxsize)
             IN  [ret |-> done.ret, raised |-> "none",
                  keyboards |-> done.keyboards, queries |-> done.queries]
      [] method = "drop_data" ->
             LET done == DropBody(found.keyboards, found.queries, argument)
             IN  [ret |-> None, raised |-> done.raised,
                  keyboards |-> done.keyboards, queries |-> done.queries]
      [] method = "persistence_data" ->
             LET done == PersistenceBody(found.keyboards, found.queries)
             IN  [ret |-> done.ret, raised |-> "none",
                  keyboards |-> done.keyboards, queries |-> done.queries]
      [] method = "clear_callback_data" ->
             LET done == __clear(found.keyboards, argument, TRUE)
             IN  [ret |-> None, raised |-> done.raised,
                  keyboards |-> done.mapping, queries |-> found.queries]
      [] OTHER ->
             LET done == __clear(found.queries, argument, FALSE)
             IN  [ret |-> None, raised |-> done.raised,
                  keyboards |-> found.keyboards, queries |-> done.mapping]

\* CallbackDataCache.__init__ without persistent_data, before the threads start
ThreadInit ==
    /\ maxsize \in 1..MaxCapacity
    /\ now = 1
    /\ uuids = 0
    /\ _keyboard_data = LRUCache
    /\ _callback_queries = LRUCache
    /\ minted = SnapshotTokens(NoSnapshot)
    /\ __lock = "free"
    /\ threads = [thread \in Threads |-> Idle]
    /\ calls = [puts |-> 0, others |-> FALSE, by |-> {}]
    /\ op = "__init__"
    /\ arg = NoSnapshot
    /\ ret = None
    /\ raised = "none"
    /\ removed = <<{}, {}>>

\* time passes while no thread is in the body of a method
ThreadTick ==
    /\ __lock = "free"
    /\ now < MaxTime
    /\ now' = now + 1
    /\ UNCHANGED <<maxsize, _keyboard_data, _callback_queries, uuids, minted>>
    /\ UNCHANGED <<concurrent, sequential>>

\* the uuids that the put_keyboard calls under way may still draw: one for
\* the keyboard and one for each button with data
Pending ==
    2 * Cardinality({thread \in Threads : threads[thread].op = "put_keyboard"
                                          /\ threads[thread].pc \in {"acquire", "build"}})

\* a thread calls a public method and arrives at its "with self.__lock";
\* no put_keyboard is called once MaxUuids uuids are drawn or spoken for
Call(thread) ==
    /\ threads[thread].pc = "idle"
    /\ \E call \in ThreadCalls :
          /\ call[1] = "put_keyboard" => uuids + Pending < MaxUuids
          /\ threads' = [threads EXCEPT ![thread] =
                            [Idle EXCEPT !.pc = "acquire", !.op = call[1], !.arg = call[2]]]
    /\ UNCHANGED <<maxsize, _keyboard_data, _callback_queries, now, uuids, minted,
                   __lock, calls>>
    /\ UNCHANGED sequential

\* "with self.__lock": the thread gets the lock and enters the body
Acquire(thread) ==
    /\ threads[thread].pc = "acquire"
    /\ acquire(__lock)
    /\ __lock' = thread
    /\ threads' = [threads EXCEPT ![thread] =
                      [@ EXCEPT !.pc = FirstStatement(threads[thread].op),
                                !.found = [keyboards |-> _keyboard_data,
                                           queries   |-> _callback_queries,
                                           uuids     |-> uuids,
                                           now       |-> now]]]
    /\ calls' = [calls EXCEPT !.others = @ \/ threads[thread].op # "put_keyboard"]
    /\ UNCHANGED <<maxsize, _keyboard_data, _callback_queries, now, uuids, minted>>
    /\ UNCHANGED sequential

\* the thread is at this statement of the body of this method
At(thread, method, statement) ==
    /\ threads[thread].op = method
    /\ threads[thread].pc = statement

\* the thread goes on to the statement, with this value in its local variables
Goto(thread, statement, local) ==
    threads' = [threads EXCEPT ![thread] = [@ EXCEPT !.pc = statement, !.local = local]]

\* the thread leaves the body, returning or raising
Leave(thread, value, exception) ==
    threads' = [threads EXCEPT ![thread] =
                   [@ EXCEPT !.pc = "exit", !.local = None,
                             !.ret = value, !.raised = exception]]

\* __put_keyboard up to "if not keyboard_data.button_data: return reply_markup"
put_keyboard_build(thread) ==
    /\ At(thread, "put_keyboard", "build")
    /\ LET reply_markup  == threads[thread].arg
           keyboard_uuid == uuid4(uuids)
           keyboard_data == KeyboardData(keyboard_uuid, 0, EmptyDict, now)
           built         == PutRows(reply_markup.inline_keyboard, keyboard_data, uuids + 1)
       IN  IF DOMAIN built.keyboard_data.button_data = {}
           THEN /\ Leave(thread, reply_markup, "none")
                /\ UNCHANGED uuids
           ELSE /\ Goto(thread, "room", [keyboard_data |-> built.keyboard_data,
                                         buttons       |-> built.buttons])
                /\ uuids' = built.uuids
    /\ UNCHANGED <<maxsize, _keyboard_data, _callback_queries, now, minted, __lock, calls>>
    /\ UNCHANGED sequential

\* "self._keyboard_data[keyboard_uuid] = keyboard_data", first half: the
\* cache makes room for the record
put_keyboard_room(thread) ==
    /\ At(thread, "put_keyboard", "room")
    /\ _keyboard_data' =
           IF Contains(_keyboard_data, threads[thread].local.keyboard_data.keyboard_uuid)
           THEN _keyboard_data
           ELSE MakeRoom(_keyboard_data, maxsize)
    /\ Goto(thread, "store", threads[thread].local)
    /\ UNCHANGED <<maxsize, _callback_queries, now, uuids, minted, __lock, calls>>
    /\ UNCHANGED sequential

\* second half: the record is stored; "return InlineKeyboardMarkup(buttons)"
put_keyboard_store(thread) ==
    /\ At(thread, "put_keyboard", "store")
    /\ LET keyboard_data == threads[thread].local.keyboard_data
           built_markup  == InlineKeyboardMarkup(threads[thread].local.buttons)
       IN  /\ _keyboard_data' = LRU_setitem(_keyboard_data, keyboard_data.keyboard_uuid,
                                            keyboard_data, maxsize)
           /\ minted' = Merge(minted, Replaced(threads[thread].arg, built_markup))
           /\ Leave(thread, built_markup, "none")
    /\ calls' = [calls EXCEPT !.puts = @ + 1, !.by = @ \cup {thread}]
    /\ UNCHANGED <<maxsize, _callback_queries, now, uuids, __lock>>
    /\ UNCHANGED sequential

\* process_callback_query up to the line that stores the query
process_callback_query_query(thread) ==
    /\ At(thread, "process_callback_query", "query")
    /\ LET callback_query == threads[thread].arg
       IN  IF ~Truthy(callback_query.data)
           THEN /\ Leave(thread, callback_query, "none")
                /\ UNCHANGED _callback_queries
           ELSE /\ _callback_queries' = StoreQuery(_callback_queries, callback_query, maxsize)
                /\ Goto(thread, "data", callback_query)
    /\ UNCHANGED <<maxsize, _keyboard_data, now, uuids, minted, __lock, calls>>
    /\ UNCHANGED sequential

\* "callback_query.data = self.__get_button_data(callback_query.data)"
process_callback_query_data(thread) ==
    /\ At(thread, "process_callback_query", "data")
    /\ LET callback_query == threads[thread].local
           top == __get_button_data(_keyboard_data, callback_query.data.v, now)
       IN  /\ _keyboard_data' = top.cache
           /\ Goto(thread, "buttons", [callback_query EXCEPT !.data = top.value])
    /\ UNCHANGED <<maxsize, _callback_queries, now, uuids, minted, __lock, calls>>
    /\ UNCHANGED sequential

\* the loop over the keyboard of the message; "return callback_query"
process_callback_query_buttons(thread) ==
    /\ At(thread, "process_callback_query", "buttons")
    /\ LET callback_query == threads[thread].local
           markup == callback_query.message.reply_markup
       IN  IF callback_query.message.has /\ markup.has
           THEN LET rows == ResolveRows(markup.inline_keyboard, _keyboard_data, now)
                IN  /\ _keyboard_data' = rows.cache
                    /\ Leave(thread,
                             [callback_query EXCEPT
                                !.message.reply_markup.inline_keyboard = rows.buttons],
                             "none")
           ELSE /\ Leave(thread, callback_query, "none")
                /\ UNCHANGED _keyboard_data
    /\ UNCHANGED <<maxsize, _callback_queries, now, uuids, minted, __lock, calls>>
    /\ UNCHANGED sequential

\* "keyboard_uuid = self._callback_queries.pop(callback_query.id)"
drop_data_pop(thread) ==
    /\ At(thread, "drop_data", "pop")
    /\ LET callback_query == threads[thread].arg
       IN  IF Contains(_callback_queries, callback_query.id)
           THEN /\ _callback_queries' = Cache_pop(_callback_queries, callback_query.id)
                /\ Goto(thread, "drop", Str(_callback_queries.val[callback_query.id]))
           ELSE /\ Leave(thread, None, "KeyError")
                /\ UNCHANGED _callback_queries
    /\ UNCHANGED <<maxsize, _keyboard_data, now, uuids, minted, __lock, calls>>
    /\ UNCHANGED sequential

\* "return self.__drop_keyboard(keyboard_uuid)"
drop_data_drop(thread) ==
    /\ At(thread, "drop_data", "drop")
    /\ _keyboard_data' = __drop_keyboard(_keyboard_data, threads[thread].local.v)
    /\ Leave(thread, None, "none")
    /\ UNCHANGED <<maxsize, _callback_queries, now, uuids, minted, __lock, calls>>
    /\ UNCHANGED sequential

\* "self.__clear(self._keyboard_data, time_cutoff)"
clear_callback_data_clear(thread) ==
    /\ At(thread, "clear_callback_data", "clear")
    /\ LET done == __clear(_keyboard_data, threads[thread].arg, TRUE)
       IN  /\ _keyboard_data' = done.mapping
           /\ Leave(thread, None, done.raised)
    /\ UNCHANGED <<maxsize, _callback_queries, now, uuids, minted, __lock, calls>>
    /\ UNCHANGED sequential

\* "self.__clear(self._callback_queries, time_cutoff)"
clear_callback_queries_clear(thread) ==
    /\ At(thread, "clear_callback_queries", "clear")
    /\ LET done == __clear(_callback_queries, threads[thread].arg, FALSE)
       IN  /\ _callback_queries' = done.mapping
           /\ Leave(thread, None, done.raised)
    /\ UNCHANGED <<maxsize, _keyboard_data, now, uuids, minted, __lock, calls>>
    /\ UNCHANGED sequential

\* "list(data.to_tuple() for data in self._keyboard_data.values())"
persistence_data_values(thread) ==
    /\ At(thread, "persistence_data", "values")
    /\ _keyboard_data' = Iterate(_keyboard_data)
    /\ Goto(thread, "items", [tuples |-> ValueTuples(_keyboard_data)])
    /\ UNCHANGED <<maxsize, _callback_queries, now, uuids, minted, __lock, calls>>
    /\ UNCHANGED sequential

\* "dict(self._callback_queries.items())"; the pair is returned
persistence_data_items(thread) ==
    /\ At(thread, "persistence_data", "items")
    /\ _callback_queries' = Iterate(_callback_queries)
    /\ Leave(thread, CDCData(threads[thread].local.tuples, Items(_callback_queries)),
             "none")
    /\ UNCHANGED <<maxsize, _keyboard_data, now, uuids, minted, __lock, calls>>
    /\ UNCHANGED sequential

\* the thread leaves the "with self.__lock" block: the lock is released and
\* the caller has the result or the exception
Release(thread) ==
    /\ threads[thread].pc = "exit"
    /\ __lock' = __exit__(__lock, thread)
    /\ threads' = [threads EXCEPT ![thread] = Idle]
    /\ UNCHANGED <<maxsize, _keyboard_data, _callback_queries, now, uuids, minted, calls>>
    /\ UNCHANGED sequential

\* the statements inside the "with self.__lock" blocks, and leaving them
Body(thread) ==
    \/ put_keyboard_build(thread)
    \/ put_keyboard_room(thread)
    \/ put_keyboard_store(thread)
    \/ process_callback_query_query(thread)
    \/ process_callback_query_data(thread)
    \/ process_callback_query_buttons(thread)
    \/ drop_data_pop(thread)
    \/ drop_data_drop(thread)
    \/ clear_callback_data_clear(thread)
    \/ clear_callback_queries_clear(thread)
    \/ persistence_data_values(thread)
    \/ persistence_data_items(thread)
    \/ Release(thread)

ThreadNext ==
    \/ ThreadTick
    \/ \E thread \in Threads : Call(thread) \/ Acquire(thread) \/ Body(thread)

\* the thread is inside a "with self.__lock" block
Inside(thread) == threads[thread].pc \notin {"idle", "acquire"}

\* a step of the thread inside a body: a step of Body(thread)
Step(thread) == Inside(thread) /\ threads'[thread] # threads[thread]

\* WF_vars(Body(thread)), written out as
\*   []<>~ENABLED <<Body(thread)>>_vars \/ []<><<Body(thread)>>_vars
\* with what they come to here: Body(thread) is enabled exactly when the
\* thread is inside a body, and its steps are the steps of Step(thread).
\* A thread that holds the lock is runnable, and the interpreter lets every
\* runnable thread run.
GoesOn(thread) == []<>(~Inside(thread)) \/ []<><<Step(thread)>>_vars

\* a thread inside a body goes on, and a thread that waits for the lock gets
\* it at some time when it is free: the lock is handed out fairly
ThreadSpec ==
    /\ ThreadInit
    /\ [][ThreadNext]_vars
    /\ \A thread \in Threads : SF_vars(Acquire(thread)) /\ GoesOn(thread)

-----------------------------------------------------------------------------
(* Claims *)

\* the keyboard uuid and the button uuid of a str value
KeyboardOf(data) == extract_uuids(data.v)[1]

ButtonOf(data) == extract_uuids(data.v)[2]

\* the str value is a token put_keyboard handed out whose record is stored
Live(cache, data) ==
    /\ data.kind = "str"
    /\ data.v \in DOMAIN minted
    /\ Contains(cache, KeyboardOf(data))

\* the slots <<row, column>> of a keyboard
Slots(rows) == UNION {{<<i, j>> : j \in 1..Len(rows[i])} : i \in 1..Len(rows)}

\* no button of the markup carries a payload
NoPayload(reply_markup) ==
    \A s \in Slots(reply_markup.inline_keyboard) :
        ~Truthy(reply_markup.inline_keyboard[s[1]][s[2]].callback_data)

\* C1: when put_keyboard replaced payload p by token t and the record it made
\* is still stored, process_callback_query of a query with data t sets the
\* data to p, every time, and leaves the record with the time of the call as
\* its access time, which is not smaller than the one before.
C1_ResolveReturnsPayload ==
    [][(op' = "process_callback_query" /\ Live(_keyboard_data, arg'.data))
       => /\ ret'.data = minted[arg'.data.v]
          /\ Contains(_keyboard_data', KeyboardOf(arg'.data))
          /\ _keyboard_data'.val[KeyboardOf(arg'.data)].access_time = now'
          /\ _keyboard_data'.val[KeyboardOf(arg'.data)].access_time
                 >= _keyboard_data.val[KeyboardOf(arg'.data)].access_time]_vars

\* a token that put_keyboard handed out in this run is resolved twice, as
\* the data of the query and as a button of its keyboard, to its payload,
\* at a later time than the record was made
C1_Witness ==
    /\ op = "process_callback_query"
    /\ arg.data.kind = "str"
    /\ arg.data.v \in DOMAIN minted
    /\ KeyboardOf(arg.data) = uuid4(0)
    /\ ret.data = minted[arg.data.v]
    /\ arg.message.reply_markup.has
    /\ arg.message.reply_markup.inline_keyboard[1][3].callback_data = arg.data
    /\ ret.message.reply_markup.inline_keyboard[1][3].callback_data = minted[arg.data.v]
    /\ _keyboard_data.val[uuid4(0)].access_time = now
    /\ now > 1

\* C2: a put_keyboard that stores a record while the keyboard store is full
\* removes exactly one record, one whose access time is the oldest.
C2_EvictsOldestAccess ==
    [][(op' = "put_keyboard" /\ ret' # arg' /\ Len(_keyboard_data.keys) = maxsize)
       => \E k \in Keys(_keyboard_data) :
             /\ removed'[1] = {k}
             /\ \A j \in Keys(_keyboard_data) :
                   _keyboard_data.val[k].access_time <= _keyboard_data.val[j].access_time]_vars

\* C3: neither store ever holds more than maxsize entries, and storing into a
\* full store does not fail.
C3_StoresBounded ==
    /\ Len(_keyboard_data.keys) <= maxsize
    /\ Cardinality(Keys(_keyboard_data)) <= maxsize
    /\ Len(_callback_queries.keys) <= maxsize
    /\ Cardinality(Keys(_callback_queries)) <= maxsize
    /\ op \in {"__init__", "put_keyboard", "process_callback_query"} => raised = "none"

\* put_keyboard stored a record in a full keyboard store
C3_Witness ==
    /\ op = "put_keyboard"
    /\ ret # arg
    /\ removed[1] # {}
    /\ Len(_keyboard_data.keys) = maxsize

\* what a slot holding the str value data must hold after the call
Resolved(cache, data) ==
    IF /\ Contains(cache, KeyboardOf(data))
       /\ ButtonOf(data) \in DOMAIN cache.val[KeyboardOf(data)].button_data
    THEN minted[data.v]
    ELSE InvalidCallbackData(data.v)

\* C4: process_callback_query resolves every slot by itself: a slot whose
\* keyboard or button is not stored gets InvalidCallbackData with the raw
\* string, every other slot its payload, slots without data stay as they
\* are, and the call returns.
C4_SlotsResolveIndependently ==
    [][(op' = "process_callback_query" /\ Truthy(arg'.data))
       => /\ raised' = "none"
          /\ ret'.id = arg'.id
          /\ ret'.data = Resolved(_keyboard_data, arg'.data)
          /\ ret'.message.has = arg'.message.has
          /\ ret'.message.reply_markup.has = arg'.message.reply_markup.has
          /\ LET old == arg'.message.reply_markup.inline_keyboard
                 new == ret'.message.reply_markup.inline_keyboard
             IN  /\ Len(new) = Len(old)
                 /\ \A i \in 1..Len(old) : Len(new[i]) = Len(old[i])
                 /\ \A s \in Slots(old) :
                       LET before == old[s[1]][s[2]]
                           after  == new[s[1]][s[2]]
                       IN  /\ after.text = before.text
                           /\ after.callback_data =
                                 IF Truthy(before.callback_data)
                                 THEN Resolved(_keyboard_data, before.callback_data)
                                 ELSE before.callback_data]_vars

\* the data and one button could not be resolved, the button after it was
\* resolved to its payload and the button without data was left alone
C4_Witness ==
    /\ op = "process_callback_query"
    /\ raised = "none"
    /\ ret.data.kind = "invalid"
    /\ ret.message.reply_markup.has
    /\ ret.message.reply_markup.inline_keyboard[1][1].callback_data = None
    /\ ret.message.reply_markup.inline_keyboard[1][2].callback_data.kind = "invalid"
    /\ ret.message.reply_markup.inline_keyboard[1][3].callback_data.kind = "obj"

\* C5: process_callback_query stores the keyboard uuid of the data under the
\* id of the query exactly when the query has data, whether or not anything
\* could be resolved, so that drop_data of that query does not fail; a query
\* without data is returned as it is and both stores stay as they are.
C5_QueryStoredIffData ==
    [][/\ op' = "process_callback_query"
          => IF Truthy(arg'.data)
             THEN /\ Contains(_callback_queries', arg'.id)
                  /\ _callback_queries'.val[arg'.id] = KeyboardOf(arg'.data)
             ELSE /\ ret' = arg'
                  /\ _keyboard_data' = _keyboard_data
                  /\ _callback_queries' = _callback_queries
       /\ (op' = "drop_data" /\ Contains(_callback_queries, arg'.id))
          => raised' = "none"]_vars

\* the query is stored although its data could not be resolved
C5_Witness ==
    /\ op = "process_callback_query"
    /\ Truthy(arg.data)
    /\ ret.data.kind = "invalid"
    /\ Contains(_callback_queries, arg.id)
    /\ _callback_queries.val[arg.id] = KeyboardOf(arg.data)

\* C6: drop_data of a stored query removes the query and, when it is stored,
\* the keyboard of the query, and nothing else; drop_data of a query that is
\* not stored, as after a first drop_data, raises KeyError and leaves both
\* stores as they are.
C6_DropData ==
    [][op' = "drop_data"
       => IF Contains(_callback_queries, arg'.id)
          THEN /\ raised' = "none"
               /\ Keys(_callback_queries') = Keys(_callback_queries) \ {arg'.id}
               /\ Keys(_keyboard_data') =
                     Keys(_keyboard_data) \ {_callback_queries.val[arg'.id]}
               /\ \A k \in Keys(_keyboard_data') :
                     _keyboard_data'.val[k] = _keyboard_data.val[k]
               /\ \A q \in Keys(_callback_queries') :
                     _callback_queries'.val[q] = _callback_queries.val[q]
          ELSE /\ raised' = "KeyError"
               /\ _keyboard_data' = _keyboard_data
               /\ _callback_queries' = _callback_queries]_vars

\* drop_data removed a query together with its keyboard
C6_Witness ==
    /\ op = "drop_data"
    /\ raised = "none"
    /\ removed[1] # {}
    /\ removed[2] = {arg.id}

\* C7: no call but drop_data raises.
C7_OnlyDropDataRaises == raised # "none" => op = "drop_data"

\* C8: clear_callback_data with a cutoff leaves exactly the records whose
\* access time is not below the cutoff, and without a cutoff no record.
C8_ClearByCutoff ==
    [][op' = "clear_callback_data"
       => Keys(_keyboard_data') =
             IF arg'.kind = "none" THEN {}
             ELSE {k \in Keys(_keyboard_data) :
                      _keyboard_data.val[k].access_time >= arg'.v}]_vars

\* C9: clear_callback_queries returns, leaves the keyboard store as it is,
\* empties the query store when no cutoff is given and removes nothing but
\* stored queries when one is given.
C9_ClearQueries ==
    [][op' = "clear_callback_queries"
       => /\ raised' = "none"
          /\ _keyboard_data' = _keyboard_data
          /\ arg'.kind = "none" => Keys(_callback_queries') = {}
          /\ Keys(_callback_queries') \subseteq Keys(_callback_queries)]_vars

\* C10: put_keyboard of a markup without payloads returns the markup and
\* leaves the keyboard store as it is.
C10_NoPayloadNoRecord ==
    [][(op' = "put_keyboard" /\ NoPayload(arg'))
       => /\ ret' = arg'
          /\ _keyboard_data' = _keyboard_data]_vars

\* put_keyboard returned a markup without payloads while the store was full
C10_Witness ==
    /\ op = "put_keyboard"
    /\ NoPayload(arg)
    /\ Slots(arg.inline_keyboard) # {}
    /\ ret = arg
    /\ Len(_keyboard_data.keys) = maxsize

\* C11: at most one thread is inside a lock-protected body, that thread holds
\* the lock, and when it leaves the body its result, its exception and both
\* stores are those of the whole body run alone on the stores it found; so
\* persistence_data returns the stores as some sequence of whole calls left
\* them, never a keyboard store between an eviction and the insertion.
C11_BodiesAtomic ==
    /\ \A t1 \in Threads, t2 \in Threads : Inside(t1) /\ Inside(t2) => t1 = t2
    /\ \A thread \in Threads : Inside(thread) => __lock = thread
    /\ \A thread \in Threads :
          threads[thread].pc = "exit" =>
             LET alone == Alone(threads[thread].op, threads[thread].arg,
                                threads[thread].found)
             IN  /\ threads[thread].ret = alone.ret
                 /\ threads[thread].raised = alone.raised
                 /\ _keyboard_data = alone.keyboards
                 /\ _callback_queries = alone.queries

\* one thread is between the eviction and the insertion of a put_keyboard
\* into a full store while the other waits to export a snapshot
C11_Witness ==
    \E t1 \in Threads, t2 \in Threads :
       /\ At(t1, "put_keyboard", "store")
       /\ ~calls.others
       /\ calls.puts = maxsize
       /\ Len(_keyboard_data.keys) = maxsize - 1
       /\ At(t2, "persistence_data", "acquire")

C13_ConcurrentPuts ==
    (/\ ~calls.others
     /\ calls.puts <= maxsize
     /\ \A thread \in Threads : ~Inside(thread))
    => /\ Len(_keyboard_data.keys) = calls.puts
       /\ Cardinality(Keys(_keyboard_data)) = calls.puts

\* both threads have stored a keyboard, two in all, and nothing else has
\* run
C13_Witness ==
    /\ ~calls.others
    /\ calls.by = Threads
    /\ calls.puts = 2
    /\ maxsize >= 2
    /\ Cardinality(Keys(_keyboard_data)) = 2
    /\ __lock = "free"

\* the stores of a cache that __init__ builds from persistent_data at time t
Imported(persistent_data, t, size) ==
    [keyboards |-> ImportKeyboards(LRUCache, persistent_data.keyboard_data, t, size),
     queries   |-> ImportQueries(LRUCache, persistent_data.callback_queries, size)]

\* C14: a cache of the same maxsize built from what persistence_data returns
\* holds the same keyboard records, with the same access times and button
\* data, and the same queries as the cache that was exported, and every
\* token and every forged string resolves in it to the same value.
C14_RoundTrip ==
    [][op' = "persistence_data"
       => LET fresh == Imported(ret', now', maxsize)
          IN  /\ fresh.keyboards.val = _keyboard_data'.val
              /\ fresh.queries.val = _callback_queries'.val
              /\ \A data \in Tokens :
                    __get_button_data(fresh.keyboards, data.v, now').value
                        = __get_button_data(_keyboard_data', data.v, now').value]_vars

\* a snapshot is exported that holds a query and a record resolved later
\* than it was made, while a token handed out before is stored no more
C14_Witness ==
    /\ op = "persistence_data"
    /\ ret.callback_queries # <<>>
    /\ \E i \in 1..Len(ret.keyboard_data) : ret.keyboard_data[i][2] > 1
    /\ \E token \in DOMAIN minted : ~Contains(_keyboard_data, extract_uuids(token)[1])
    /\ \E token \in DOMAIN minted : Contains(_keyboard_data, extract_uuids(token)[1])

\* C15: a cache of the same maxsize built from what persistence_data returns
\* has both stores in the least-recently-used-first order that the exported
\* cache had when persistence_data was called, so it evicts in that order.
C15_RecencyPreserved ==
    [][op' = "persistence_data"
       => LET fresh == Imported(ret', now', maxsize)
          IN  /\ fresh.keyboards.order = _keyboard_data.order
              /\ fresh.queries.order = _callback_queries.order]_vars

\* button uuids of any length, next to those uuid4 yields
ButtonIds == {<<>>, <<"x">>, Unknown, Unknown \o <<"x">>} \cup {uuid4(n) : n \in 0..MaxUuids}

\* C16: for the uuid of every keyboard stored or about to be made and every
\* button uuid b, extract_uuids of the token that __put_button builds is the
\* pair of the two, and so is extract_uuids of k followed by any b.
C16_CodecRoundTrip ==
    \A k \in Keys(_keyboard_data) \cup {uuid4(uuids), Unknown} :
       /\ \A n \in 0..MaxUuids :
             LET put == __put_button(Obj("p1"), KeyboardData(k, 0, EmptyDict, now), n)
             IN  /\ extract_uuids(put.token) = <<k, uuid4(n)>>
                 /\ put.keyboard_data.button_data[extract_uuids(put.token)[2]] = Obj("p1")
       /\ \A b \in ButtonIds : extract_uuids(k \o b) = <<k, b>>

\* put_keyboard has handed out tokens, and each of them splits into the key
\* of the record stored and a key of its button data
C16_Witness ==
    /\ op = "put_keyboard"
    /\ ret # arg
    /\ Cardinality(DOMAIN Replaced(arg, ret)) = 2
    /\ \A token \in DOMAIN Replaced(arg, ret) :
          /\ Contains(_keyboard_data, extract_uuids(token)[1])
          /\ extract_uuids(token)[2]
                 \in DOMAIN _keyboard_data.val[extract_uuids(token)[1]].button_data

\* C17: process_callback_query of a query without a keyboard whose data is
\* not resolved leaves the keyboard store as it is: its records, their access
\* times and its eviction order.
C17_FailedResolutionFrame ==
    [][(/\ op' = "process_callback_query"
        /\ Truthy(arg'.data)
        /\ ~arg'.message.has
        /\ ret'.data.kind = "invalid")
       => _keyboard_data' = _keyboard_data]_vars

C20_ExportPureRead ==
    [][op' = "persistence_data"
       => /\ _keyboard_data' = _keyboard_data
          /\ _callback_queries' = _callback_queries]_vars

=============================================================================
